---- MODULE Spec2Model ----
(***************************************************************************)
(* Ingestion and storage subsystem of the realtor.ca scraper               *)
(* (utils.ts: spill buffer, dynamic Excel master store, duplicate check,   *)
(* health validation, rebuild) and the workflow loop that drives it.       *)
(*                                                                         *)
(* Strings are sequences of one-character strings so that trim(),          *)
(* toUpperCase() and substring() are computed and not assumed.  A record   *)
(* carries the five columns the code ever inspects (DATE, ADDRESS, POSTAL, *)
(* AGENT, PRICE); CITY, STATE, BROKER, LATITUDE and LONGITUDE are copied   *)
(* through by every operation exactly like AGENT resp. PRICE and no branch *)
(* of the code reads them.  An empty cell (null) and the empty string are  *)
(* both falsy in every test the code makes and are identified.             *)
(***************************************************************************)
EXTENDS Integers, Sequences, FiniteSets, TLC

----------------------------------------------------------------------------
(* Strings *)

\* UTF-16 code unit of the characters that occur in the modelled inputs
Code(c) ==
  CASE c = " " -> 32
    [] c = "-" -> 45
    [] c = "0" -> 48
    [] c = "1" -> 49
    [] c = "2" -> 50
    [] c = "3" -> 51
    [] c = "5" -> 53
    [] c = "A" -> 65
    [] c = "B" -> 66
    [] c = "E" -> 69
    [] c = "M" -> 77
    [] c = "O" -> 79
    [] c = "R" -> 82
    [] c = "a" -> 97
    [] c = "b" -> 98
    [] c = "m" -> 109
    [] c = "o" -> 111
    [] c = "r" -> 114

\* String.prototype.toUpperCase on one character
UpperChar(c) ==
  CASE c = "a" -> "A"
    [] c = "b" -> "B"
    [] c = "m" -> "M"
    [] c = "o" -> "O"
    [] c = "r" -> "R"
    [] OTHER -> c

\* String.prototype.toUpperCase
toUpperCase(s) == [i \in 1..Len(s) |-> UpperChar(s[i])]

RECURSIVE trimStart(_)
trimStart(s) ==
  IF s = <<>> THEN <<>>
  ELSE IF Head(s) = " " THEN trimStart(Tail(s)) ELSE s

RECURSIVE trimEnd(_)
trimEnd(s) ==
  IF s = <<>> THEN <<>>
  ELSE IF s[Len(s)] = " " THEN trimEnd(SubSeq(s, 1, Len(s) - 1)) ELSE s

\* String.prototype.trim
trim(s) == trimEnd(trimStart(s))

\* String.prototype.substring(0, n)
substring0(s, n) == SubSeq(s, 1, IF Len(s) < n THEN Len(s) ELSE n)

\* s < t in JavaScript's string order (code units, shorter prefix first)
RECURSIVE StrLess(_, _)
StrLess(s, t) ==
  IF t = <<>> THEN FALSE
  ELSE IF s = <<>> THEN TRUE
  ELSE IF Code(Head(s)) # Code(Head(t)) THEN Code(Head(s)) < Code(Head(t))
  ELSE StrLess(Tail(s), Tail(t))

\* JavaScript truthiness of a cell value / string
Truthy(s) == s # <<>>

----------------------------------------------------------------------------
(* Records (PropertyData) *)

Rec(d, a, p, g, c) == [DATE |-> d, ADDRESS |-> a, POSTAL |-> p, AGENT |-> g, PRICE |-> c]

\* the spec's normalize = trim + uppercase, and the keys built from it
normalize(s) == toUpperCase(trim(s))
PrimaryKey(r) == <<normalize(r.ADDRESS), normalize(r.POSTAL)>>
Discriminator(r) == <<normalize(r.PRICE), normalize(r.AGENT)>>
CompositeKey(r) == <<PrimaryKey(r), Discriminator(r)>>
WellFormed(r) == trim(r.ADDRESS) # <<>> /\ trim(r.POSTAL) # <<>>

----------------------------------------------------------------------------
(* Workbooks: a workbook is the sequence of its worksheets in creation    *)
(* order; a worksheet is its name and its data rows (row 1, the header,   *)
(* is implicit, so worksheet.rowCount = Len(rows) + 1).                   *)

NullWorkbook == [null |-> TRUE, sheets |-> <<>>]
NewWorkbook == [null |-> FALSE, sheets |-> <<>>]
Workbook(sh) == [null |-> FALSE, sheets |-> sh]

rowCount(ws) == Len(ws.rows) + 1

\* number of data rows of a workbook
RECURSIVE TotalDataRows(_)
TotalDataRows(sheets) ==
  IF sheets = <<>> THEN 0 ELSE Len(Head(sheets).rows) + TotalDataRows(Tail(sheets))

\* workbook.getWorksheet(name): index of the sheet, 0 when there is none
getWorksheet(sheets, name) ==
  IF \E i \in 1..Len(sheets) : sheets[i].name = name
  THEN CHOOSE i \in 1..Len(sheets) : sheets[i].name = name
  ELSE 0

\* the test of "Skip empty rows" / "if (row.hasValues && cell2 && cell5)"
RowHasKeyCells(row) == Truthy(row.ADDRESS) /\ Truthy(row.POSTAL)

\* the comparison without its secondary check: address and postal code only
RowMatchesPrimaryOnly(row, property) ==
  LET existingAddress == trim(toUpperCase(row.ADDRESS))
      existingPostal == trim(toUpperCase(row.POSTAL))
      newAddress == trim(toUpperCase(property.ADDRESS))
      newPostal == trim(toUpperCase(property.POSTAL))
  IN /\ RowHasKeyCells(row)
     /\ Truthy(existingAddress) /\ Truthy(existingPostal)
     /\ existingAddress = newAddress /\ existingPostal = newPostal

\* one row against the candidate, as the loop body of checkIfPropertyExists
RowMatches(row, property) ==
  LET existingAddress == trim(toUpperCase(row.ADDRESS))
      existingPostal == trim(toUpperCase(row.POSTAL))
      existingPrice == trim(row.PRICE)
      existingAgent == trim(toUpperCase(row.AGENT))
      newAddress == trim(toUpperCase(property.ADDRESS))
      newPostal == trim(toUpperCase(property.POSTAL))
      newPrice == trim(property.PRICE)
      newAgent == trim(toUpperCase(property.AGENT))
  IN /\ RowHasKeyCells(row)
     /\ Truthy(existingAddress) /\ Truthy(existingPostal)
     /\ existingAddress = newAddress /\ existingPostal = newPostal
     /\ existingPrice = newPrice /\ existingAgent = newAgent

checkIfPropertyExists(rows, property) ==
  \E n \in 1..Len(rows) : RowMatches(rows[n], property)

\* addPropertyToWorkbook: get or create the worksheet, skip a duplicate when
\* asked to check, append the row otherwise
addPropertyToWorkbook(sheets, property, postalPrefix, checkDuplicates) ==
  LET at == getWorksheet(sheets, postalPrefix)
      withSheet == IF at = 0
                   THEN Append(sheets, [name |-> postalPrefix, rows |-> <<>>])
                   ELSE sheets
      k == IF at = 0 THEN Len(withSheet) ELSE at
  IN IF checkDuplicates /\ checkIfPropertyExists(withSheet[k].rows, property)
     THEN withSheet
     ELSE [withSheet EXCEPT ![k].rows = Append(@, property)]

\* the uppercaseProperty object built by addPropertyToExcel
uppercaseProperty(property) ==
  [DATE |-> property.DATE,
   ADDRESS |-> toUpperCase(property.ADDRESS),
   POSTAL |-> toUpperCase(property.POSTAL),
   AGENT |-> toUpperCase(property.AGENT),
   PRICE |-> property.PRICE]

\* property.POSTAL.substring(0, 2).toUpperCase()
postalPrefixOf(property) == toUpperCase(substring0(property.POSTAL, 2))

----------------------------------------------------------------------------
(* Files.  A store file is named by a number: 0 is master-listings.xlsx,  *)
(* n > 0 is the n-th temp-rebuild-<timestamp>.xlsx still on disk.  The    *)
(* content of a file is a workbook, or garbage left by a write that       *)
(* failed half way.  Backups have fresh timestamped names and are never   *)
(* read or removed by the code; the set of their contents is kept.        *)

MasterListings == 0
Garbage == [ok |-> FALSE, sheets |-> <<>>]
Content(sheets) == [ok |-> TRUE, sheets |-> sheets]

existsSync(files, name) == name \in DOMAIN files

\* a file name built from generateTimestamp(): one that is not on disk yet
FreshTempName(files) == CHOOSE n \in 1..(Cardinality(DOMAIN files) + 1) : n \notin DOMAIN files

WriteFileTo(files, name, content) == [n \in DOMAIN files \cup {name} |-> IF n = name THEN content ELSE files[n]]
RemoveFile(files, name) == [n \in DOMAIN files \ {name} |-> files[n]]

\* workbook.xlsx.readFile(name) succeeds
Readable(files, name) == existsSync(files, name) /\ files[name].ok

\* what a failed workbook.xlsx.writeFile(name) can leave on disk: the write
\* stream truncates the file when it is opened, so either nothing changed
\* (open failed) or the file holds a partial archive
FailedWriteOutcomes(files, name) == {files, WriteFileTo(files, name, Garbage)}

----------------------------------------------------------------------------
(* Program state: the module-level variables of utils.ts and the disk     *)

VARIABLES dailyWorkbook, masterWorkbook, masterFilename, files, backups,
          tempFileCounter, currentTempData, tempFiles, tempDisk

progVars == <<dailyWorkbook, masterWorkbook, masterFilename, files, backups,
              tempFileCounter, currentTempData, tempFiles, tempDisk>>

\* the program state as one value, so that a handler can call another
Cur ==
  [dailyWorkbook |-> dailyWorkbook, masterWorkbook |-> masterWorkbook,
   masterFilename |-> masterFilename, files |-> files, backups |-> backups,
   tempFileCounter |-> tempFileCounter, currentTempData |-> currentTempData,
   tempFiles |-> tempFiles, tempDisk |-> tempDisk]

Becomes(S) ==
  /\ dailyWorkbook' = S.dailyWorkbook
  /\ masterWorkbook' = S.masterWorkbook
  /\ masterFilename' = S.masterFilename
  /\ files' = S.files
  /\ backups' = S.backups
  /\ tempFileCounter' = S.tempFileCounter
  /\ currentTempData' = S.currentTempData
  /\ tempFiles' = S.tempFiles
  /\ tempDisk' = S.tempDisk

\* outcome of a call: the state it leaves and whether it threw
\* and, for the log of an ingestion call: "reached" tells that the call got
\* to addPropertyToWorkbook, "at" is the master workbook it found there,
\* "added" that it appended a row to it ("New property verified"), and
\* "rebuilt" that rebuildCorruptedMasterFile ran inside the call
Returned(S) == [st |-> S, threw |-> FALSE, reached |-> FALSE, at |-> <<>>,
                added |-> FALSE, rebuilt |-> FALSE]
Thrown(S) == [st |-> S, threw |-> TRUE, reached |-> FALSE, at |-> <<>>,
              added |-> FALSE, rebuilt |-> FALSE]

----------------------------------------------------------------------------
(* addPropertyToExcel.  io is the set of I/O operations that fail during  *)
(* the call; every handler below returns the set of its possible outcomes *)

\* "Save both files" and the outcome of the call: S is the state at the
\* call, S1 the state with the row added to the two workbooks
addPropertyToExcelSave(S, S1, io) ==
  LET isNew == TotalDataRows(S1.masterWorkbook.sheets) > TotalDataRows(S.masterWorkbook.sheets)
      Logged(r) == [r EXCEPT !.reached = TRUE, !.at = S.masterWorkbook.sheets, !.added = isNew]
  IN IF "dailyWrite" \in io
     THEN {Logged(Thrown(S1))}
     ELSE IF "masterWrite" \in io
     THEN {Logged(Thrown([S1 EXCEPT !.files = f])) :
             f \in FailedWriteOutcomes(S1.files, S1.masterFilename)}
     ELSE {Logged(Returned([S1 EXCEPT !.files =
                              WriteFileTo(@, S1.masterFilename,
                                          Content(S1.masterWorkbook.sheets))]))}

addPropertyToExcel(S, property, io) ==
  IF S.dailyWorkbook.null \/ S.masterWorkbook.null
  THEN {Thrown(S)}
  ELSE addPropertyToExcelSave(S,
         [S EXCEPT !.dailyWorkbook =
                     Workbook(addPropertyToWorkbook(S.dailyWorkbook.sheets,
                                uppercaseProperty(property), postalPrefixOf(property), FALSE)),
                   !.masterWorkbook =
                     Workbook(addPropertyToWorkbook(S.masterWorkbook.sheets,
                                uppercaseProperty(property), postalPrefixOf(property), TRUE))],
         io)

----------------------------------------------------------------------------
(* Final cleanup: cleanupEmptyRows and performMasterFileDuplicateCheck     *)

\* hasData = row.hasValues && (cell 2 || cell 5)
HasData(row) == Truthy(row.ADDRESS) \/ Truthy(row.POSTAL)

\* cleanupEmptyRows: the rows left, and the number removed
cleanupEmptyRows(rows) == SelectSeq(rows, HasData)
cleanupAll(sheets) == [i \in 1..Len(sheets) |-> [sheets[i] EXCEPT !.rows = cleanupEmptyRows(@)]]
emptyRowsRemoved(sheets) == TotalDataRows(sheets) - TotalDataRows(cleanupAll(sheets))

\* `${property.ADDRESS.toUpperCase()}-${property.POSTAL.toUpperCase()}`
dupCheckKey(property) == toUpperCase(property.ADDRESS) \o <<"-">> \o toUpperCase(property.POSTAL)

\* the PropertyData read back from a row by performMasterFileDuplicateCheck
dupCheckRead(row) ==
  [DATE |-> row.DATE, ADDRESS |-> trim(row.ADDRESS), POSTAL |-> trim(row.POSTAL),
   AGENT |-> trim(row.AGENT), PRICE |-> row.PRICE]

\* the body of the collecting loop for a row that has both key cells;
\* acc = [validRows, uniqueProperties, duplicates]
dupCheckStep(acc, property, key) ==
  IF ~Truthy(property.ADDRESS) \/ ~Truthy(property.POSTAL) THEN acc
  ELSE IF key \in DOMAIN acc.uniqueProperties
  THEN IF StrLess(acc.uniqueProperties[key].DATE, property.DATE)
       THEN [validRows |-> [acc.validRows EXCEPT ![Len(acc.validRows)] = property],
             uniqueProperties |-> (key :> property) @@ acc.uniqueProperties,
             duplicates |-> acc.duplicates + 1]
       ELSE [acc EXCEPT !.duplicates = @ + 1]
  ELSE [validRows |-> Append(acc.validRows, property),
        uniqueProperties |-> (key :> property) @@ acc.uniqueProperties,
        duplicates |-> acc.duplicates]

\* the collecting loop over the rows of a worksheet
RECURSIVE dupCheckLoop(_, _)
dupCheckLoop(rows, acc) ==
  IF rows = <<>> THEN acc
  ELSE dupCheckLoop(Tail(rows),
                    IF ~RowHasKeyCells(Head(rows)) THEN acc
                    ELSE dupCheckStep(acc, dupCheckRead(Head(rows)),
                                      dupCheckKey(dupCheckRead(Head(rows)))))

dupCheckSheet(rows) == dupCheckLoop(rows, [validRows |-> <<>>, uniqueProperties |-> <<>>, duplicates |-> 0])

\* the row written back for a kept property
dupCheckWrite(property) ==
  [DATE |-> property.DATE, ADDRESS |-> toUpperCase(property.ADDRESS),
   POSTAL |-> toUpperCase(property.POSTAL), AGENT |-> toUpperCase(property.AGENT),
   PRICE |-> property.PRICE]

\* performMasterFileDuplicateCheck: every worksheet is rewritten with its
\* validRows; duplicatesFound = duplicatesRemoved is the count over all sheets
performMasterFileDuplicateCheck(sheets) ==
  [i \in 1..Len(sheets) |->
     LET kept == dupCheckSheet(sheets[i].rows).validRows
     IN [sheets[i] EXCEPT !.rows = [j \in 1..Len(kept) |-> dupCheckWrite(kept[j])]]]

RECURSIVE duplicatesRemoved(_)
duplicatesRemoved(sheets) ==
  IF sheets = <<>> THEN 0
  ELSE dupCheckSheet(Head(sheets).rows).duplicates + duplicatesRemoved(Tail(sheets))

\* finalizeDynamicExcel
\* a final save that leaves the two workbook handles set
finalizeDynamicExcelSaveKeepingHandles(S1, io) ==
  IF "dailyWrite" \in io
  THEN {Thrown(S1)}
  ELSE IF "masterWrite" \in io
  THEN {Thrown([S1 EXCEPT !.files = f]) : f \in FailedWriteOutcomes(S1.files, S1.masterFilename)}
  ELSE {Returned([S1 EXCEPT !.files = WriteFileTo(@, S1.masterFilename,
                                                  Content(S1.masterWorkbook.sheets))])}

\* the two writeFile calls and the reset; S1 is the state after the cleanup
finalizeDynamicExcelSave(S1, io) ==
  IF "dailyWrite" \in io
  THEN {Thrown(S1)}
  ELSE IF "masterWrite" \in io
  THEN {Thrown([S1 EXCEPT !.files = f]) : f \in FailedWriteOutcomes(S1.files, S1.masterFilename)}
  ELSE {Returned([S1 EXCEPT !.files = WriteFileTo(@, S1.masterFilename,
                                                  Content(S1.masterWorkbook.sheets)),
                            !.dailyWorkbook = NullWorkbook,
                            !.masterWorkbook = NullWorkbook])}

finalizeDynamicExcel(S, io) ==
  IF S.dailyWorkbook.null \/ S.masterWorkbook.null
  THEN {Thrown(S)}
  ELSE finalizeDynamicExcelSave(
         [S EXCEPT !.dailyWorkbook = Workbook(cleanupAll(S.dailyWorkbook.sheets)),
                   !.masterWorkbook = Workbook(performMasterFileDuplicateCheck(
                                                 cleanupAll(S.masterWorkbook.sheets)))],
         io)

\* validateMasterFileIntegrity(filename): every failure is caught and logged
validateMasterFileIntegrity(S, filename, io) ==
  IF ~existsSync(S.files, filename) THEN {Returned(S)}
  ELSE IF ~Readable(S.files, filename) \/ "read" \in io THEN {Returned(S)}
  ELSE
    LET loaded == S.files[filename].sheets
        cleaned == cleanupAll(loaded)
        checked == performMasterFileDuplicateCheck(cleaned)
    IN IF duplicatesRemoved(cleaned) > 0 \/ emptyRowsRemoved(loaded) > 0
       THEN IF "masterWrite" \in io
            THEN {Returned([S EXCEPT !.files = f]) : f \in FailedWriteOutcomes(S.files, filename)}
            ELSE {Returned([S EXCEPT !.files = WriteFileTo(@, filename, Content(checked))])}
       ELSE {Returned(S)}

----------------------------------------------------------------------------
(* Limits.  The source values are 50, 1000000 and 50000; they are scaled  *)
(* down so that the limits are reached within the explored runs.          *)

MAX_PROPERTIES_IN_MEMORY == 2
SAFE_MAX_ROWS == 3
MAX_ROWS_PER_POSTAL_SHEET == 2

\* new Date().toISOString().split("T")[0], the DATE given to a row without one
Today == <<"2">>

----------------------------------------------------------------------------
(* removeDuplicates: the batch deduplication pass                          *)

removeDuplicatesPrimaryKey(property) ==
  toUpperCase(trim(property.ADDRESS)) \o <<"-">> \o toUpperCase(trim(property.POSTAL))

removeDuplicatesDetailedKey(property) ==
  removeDuplicatesPrimaryKey(property) \o <<"-">> \o property.PRICE
    \o <<"-">> \o toUpperCase(property.AGENT)

\* acc = [seen, unique]
RECURSIVE removeDuplicatesLoop(_, _)
removeDuplicatesLoop(data, acc) ==
  IF data = <<>> THEN acc
  ELSE
    LET property == Head(data)
        primaryKey == removeDuplicatesPrimaryKey(property)
        detailedKey == removeDuplicatesDetailedKey(property)
        keep(key) == [seen |-> (key :> property) @@ acc.seen,
                      unique |-> Append(acc.unique, property)]
        next ==
          IF primaryKey \in DOMAIN acc.seen
          THEN LET existingProperty == acc.seen[primaryKey]
                   isPriceMatch == trim(existingProperty.PRICE) = trim(property.PRICE)
                   isAgentMatch == toUpperCase(trim(existingProperty.AGENT))
                                     = toUpperCase(trim(property.AGENT))
               IN IF isPriceMatch /\ isAgentMatch THEN acc
                  ELSE IF detailedKey \notin DOMAIN acc.seen THEN keep(detailedKey)
                  ELSE acc
          ELSE keep(primaryKey)
    IN removeDuplicatesLoop(Tail(data), next)

removeDuplicates(data) == removeDuplicatesLoop(data, [seen |-> <<>>, unique |-> <<>>]).unique

----------------------------------------------------------------------------
(* validateExcelFileHealth                                                 *)

\* [emptyRows, validProperties] of one worksheet
healthCountSheet(rows) ==
  [emptyRows |-> Len(SelectSeq(rows, LAMBDA r : ~RowHasKeyCells(r))),
   validProperties |-> Len(SelectSeq(rows, RowHasKeyCells))]

RECURSIVE SumSeq(_)
SumSeq(ns) == IF Len(ns) = 0 THEN 0 ELSE ns[1] + SumSeq(Tail(ns))

healthStats(sheets) ==
  [totalSheets |-> Len(sheets),
   totalRows |-> SumSeq([i \in 1..Len(sheets) |-> rowCount(sheets[i])]),
   emptyRows |-> SumSeq([i \in 1..Len(sheets) |-> healthCountSheet(sheets[i].rows).emptyRows]),
   validProperties |->
     SumSeq([i \in 1..Len(sheets) |-> healthCountSheet(sheets[i].rows).validProperties])]

healthIssuesOf(sheets, stats) ==
  (IF stats.totalSheets = 0 THEN {"no worksheets"} ELSE {})
  \cup (IF \E i \in 1..Len(sheets) : rowCount(sheets[i]) > SAFE_MAX_ROWS
        THEN {"too many rows"} ELSE {})
  \cup (IF \E i \in 1..Len(sheets) :
             10 * healthCountSheet(sheets[i].rows).emptyRows
               > healthCountSheet(sheets[i].rows).validProperties
        THEN {"sheet has excessive empty rows"} ELSE {})
  \cup (IF 10 * stats.totalRows > 8 * SAFE_MAX_ROWS THEN {"approaching row limit"} ELSE {})
  \cup (IF 20 * stats.emptyRows > stats.validProperties
        THEN {"excessive empty rows in file"} ELSE {})

healthIssues(sheets) == healthIssuesOf(sheets, healthStats(sheets))

healthReport(issues) == [isHealthy |-> issues = {}, issues |-> issues]

validateExcelFileHealth(fs, filename, io) ==
  IF ~existsSync(fs, filename)
  THEN [isHealthy |-> FALSE, issues |-> {"file does not exist"}]
  ELSE IF ~Readable(fs, filename) \/ "healthRead" \in io
  THEN [isHealthy |-> FALSE, issues |-> {"critical file corruption"}]
  ELSE healthReport(healthIssues(fs[filename].sheets))

NoHealthStats == [totalSheets |-> 0, totalRows |-> 0, emptyRows |-> 0, validProperties |-> 0]

\* the value returned by validateExcelFileHealth with its stats field
healthScan(fs, filename, io) ==
  [isHealthy |-> validateExcelFileHealth(fs, filename, io).isHealthy,
   issues |-> validateExcelFileHealth(fs, filename, io).issues,
   stats |-> IF Readable(fs, filename) /\ "healthRead" \notin io
             THEN healthStats(fs[filename].sheets) ELSE NoHealthStats]

\* no call of validateExcelFileHealth has returned yet
NoHealth == [ran |-> FALSE, isHealthy |-> FALSE, issues |-> {}, stats |-> NoHealthStats]

----------------------------------------------------------------------------
(* rebuildCorruptedMasterFile                                              *)

\* the PropertyData extracted from a row of the corrupted file
rebuildRead(row) ==
  [DATE |-> IF Truthy(trim(row.DATE)) THEN trim(row.DATE) ELSE Today,
   ADDRESS |-> toUpperCase(trim(row.ADDRESS)),
   POSTAL |-> toUpperCase(trim(row.POSTAL)),
   AGENT |-> toUpperCase(trim(row.AGENT)),
   PRICE |-> trim(row.PRICE)]

\* rows 2 .. min(rowCount, SAFE_MAX_ROWS) of one worksheet that pass both tests
rebuildExtractSheet(ws) ==
  LET last == IF rowCount(ws) < SAFE_MAX_ROWS THEN rowCount(ws) ELSE SAFE_MAX_ROWS
      scanned == SubSeq(ws.rows, 1, last - 1)
      wanted(row) == /\ RowHasKeyCells(row)
                     /\ Truthy(rebuildRead(row).ADDRESS) /\ Truthy(rebuildRead(row).POSTAL)
      kept == SelectSeq(scanned, wanted)
  IN [j \in 1..Len(kept) |-> rebuildRead(kept[j])]

RECURSIVE rebuildExtract(_)
rebuildExtract(sheets) ==
  IF sheets = <<>> THEN <<>>
  ELSE rebuildExtractSheet(Head(sheets)) \o rebuildExtract(Tail(sheets))

\* grouping by postal prefix under the per-sheet row limit;
\* acc = [groupedData, propertiesProcessed]
RECURSIVE rebuildGroup(_, _)
rebuildGroup(data, acc) ==
  IF data = <<>> THEN acc
  ELSE
    LET property == Head(data)
        postalPrefix == postalPrefixOf(property)
        groups == IF postalPrefix \in DOMAIN acc.groupedData THEN acc.groupedData
                  ELSE (postalPrefix :> <<>>) @@ acc.groupedData
        next == IF Len(groups[postalPrefix]) < MAX_ROWS_PER_POSTAL_SHEET
                THEN [groupedData |-> [groups EXCEPT ![postalPrefix] = Append(@, property)],
                      propertiesProcessed |-> acc.propertiesProcessed + 1]
                ELSE [acc EXCEPT !.groupedData = groups]
    IN rebuildGroup(Tail(data), next)

\* Object.keys(groupedData).sort()
RECURSIVE SortNames(_)
SortNames(names) ==
  IF names = {} THEN <<>>
  ELSE LET least == CHOOSE n \in names : \A m \in names \ {n} : StrLess(n, m)
       IN <<least>> \o SortNames(names \ {least})

\* the worksheets of the rebuilt workbook and the statistics returned
rebuildSheets(groupedData, sortedPrefixes) ==
  [i \in 1..Len(sortedPrefixes) |->
     [name |-> sortedPrefixes[i], rows |-> groupedData[sortedPrefixes[i]]]]

rebuildBook(extractedData, uniqueData, grouped) ==
  [sheets |-> rebuildSheets(grouped.groupedData, SortNames(DOMAIN grouped.groupedData)),
   stats |-> [totalProperties |-> Len(uniqueData),
              sheetsCreated |-> Cardinality(DOMAIN grouped.groupedData),
              propertiesProcessed |-> grouped.propertiesProcessed,
              duplicatesRemoved |-> Len(extractedData) - Len(uniqueData),
              corruptedRowsSkipped |-> 0]]

rebuildUnique(extractedData, uniqueData) ==
  rebuildBook(extractedData, uniqueData,
              rebuildGroup(uniqueData, [groupedData |-> <<>>, propertiesProcessed |-> 0]))

rebuildResult(extractedData) == rebuildUnique(extractedData, removeDuplicates(extractedData))

NoStats == [totalProperties |-> 0, sheetsCreated |-> 0, propertiesProcessed |-> 0,
            duplicatesRemoved |-> 0, corruptedRowsSkipped |-> 0]

\* rebuildCorruptedMasterFile(corruptedFilename, replaceOriginal): the call
\* never throws; the outcome carries success, newFilename and the statistics
rebuildFailed(S, corruptedFilename) ==
  [st |-> S, success |-> FALSE, newFilename |-> corruptedFilename,
   replacedOriginal |-> FALSE, stats |-> NoStats]

\* the write of the rebuilt workbook and the replacement of the original;
\* S1 is the state after the backup copy, built the rebuilt workbook
rebuildSave(S1, corruptedFilename, tempFilename, there, replaceOriginal, built, io) ==
  IF "tempWrite" \in io
  THEN rebuildFailed(S1, corruptedFilename)
  ELSE
    LET withTemp == WriteFileTo(S1.files, tempFilename, Content(built.sheets))
        kept == [st |-> [S1 EXCEPT !.files = withTemp], success |-> TRUE,
                 newFilename |-> tempFilename, replacedOriginal |-> FALSE,
                 stats |-> built.stats]
    IN IF ~replaceOriginal THEN kept
       ELSE IF there /\ "unlink" \in io THEN kept
       ELSE IF "rename" \in io
       THEN [kept EXCEPT !.st.files = RemoveFile(withTemp, corruptedFilename)]
       ELSE [st |-> [S1 EXCEPT !.files = WriteFileTo(RemoveFile(withTemp, tempFilename),
                                                    corruptedFilename, Content(built.sheets)),
                              !.masterFilename = corruptedFilename],
             success |-> TRUE, newFilename |-> corruptedFilename,
             replacedOriginal |-> TRUE, stats |-> built.stats]

rebuildCorruptedMasterFile(S, corruptedFilename, replaceOriginal, io) ==
  IF existsSync(S.files, corruptedFilename) /\ "backupCopy" \in io
  THEN rebuildFailed(S, corruptedFilename)
  ELSE rebuildSave(
         [S EXCEPT !.backups = IF existsSync(S.files, corruptedFilename)
                               THEN @ \cup {S.files[corruptedFilename]} ELSE @],
         corruptedFilename, FreshTempName(S.files), existsSync(S.files, corruptedFilename),
         replaceOriginal,
         rebuildResult(IF Readable(S.files, corruptedFilename) /\ "rebuildRead" \notin io
                       THEN rebuildExtract(S.files[corruptedFilename].sheets)
                       ELSE <<>>),
         io)

----------------------------------------------------------------------------
(* rebuildCorruptedMasterFile, one I/O operation at a time.  R is the     *)
(* call in progress: pc is its position, existed and original what        *)
(* fs.existsSync(corruptedFilename) and the file were at entry, start the *)
(* disk at entry, failed the I/O operations that have thrown so far; the  *)
(* other fields are the local variables and the value returned.           *)

NoRebuild ==
  [pc |-> "idle", corruptedFilename |-> MasterListings, replaceOriginal |-> TRUE,
   tempFilename |-> MasterListings, existed |-> FALSE, original |-> Garbage,
   start |-> [files |-> <<>>, backups |-> {}],
   backedUp |-> FALSE, extractionSuccessful |-> FALSE, extractedData |-> <<>>,
   sheets |-> <<>>, failed |-> {},
   success |-> FALSE, newFilename |-> MasterListings, replacedOriginal |-> FALSE,
   stats |-> NoStats]

\* entry: timestamp, tempFilename, backupFilename
rebuildEnter(S, corruptedFilename, replaceOriginal) ==
  [NoRebuild EXCEPT
     !.pc = "entered",
     !.corruptedFilename = corruptedFilename,
     !.replaceOriginal = replaceOriginal,
     !.tempFilename = FreshTempName(S.files),
     !.existed = existsSync(S.files, corruptedFilename),
     !.original = IF existsSync(S.files, corruptedFilename)
                  THEN S.files[corruptedFilename] ELSE Garbage,
     !.start = [files |-> S.files, backups |-> S.backups],
     !.newFilename = corruptedFilename]

\* the value returned by the catch block at the end of the function
rebuildThrown(R, point) ==
  [R EXCEPT !.pc = "failed", !.failed = @ \cup {point}, !.success = FALSE,
            !.newFilename = R.corruptedFilename, !.stats = NoStats]

\* the same step with the exception of fs.copyFileSync swallowed
rebuildBackupStepUnchecked(R, S, fails) ==
  IF ~existsSync(S.files, R.corruptedFilename) \/ fails
  THEN [rb |-> [R EXCEPT !.pc = "backedUp"], st |-> S]
  ELSE [rb |-> [R EXCEPT !.pc = "backedUp", !.backedUp = TRUE],
        st |-> [S EXCEPT !.backups = @ \cup {S.files[R.corruptedFilename]}]]

\* "Create backup of corrupted file first": fs.copyFileSync
rebuildBackupStep(R, S, fails) ==
  IF ~existsSync(S.files, R.corruptedFilename)
  THEN [rb |-> [R EXCEPT !.pc = "backedUp"], st |-> S]
  ELSE IF fails
  THEN [rb |-> rebuildThrown(R, "backupCopy"), st |-> S]
  ELSE [rb |-> [R EXCEPT !.pc = "backedUp", !.backedUp = TRUE],
        st |-> [S EXCEPT !.backups = @ \cup {S.files[R.corruptedFilename]}]]

\* "Try to extract data from corrupted file": readFile inside its own try
rebuildExtractStep(R, S, fails) ==
  IF ~existsSync(S.files, R.corruptedFilename)
  THEN [rb |-> [R EXCEPT !.pc = "extracted"], st |-> S]
  ELSE IF ~Readable(S.files, R.corruptedFilename) \/ fails
  THEN [rb |-> [R EXCEPT !.pc = "extracted",
                         !.failed = IF fails THEN @ \cup {"rebuildRead"} ELSE @],
        st |-> S]
  ELSE [rb |-> [R EXCEPT !.pc = "extracted", !.extractionSuccessful = TRUE,
                         !.extractedData = rebuildExtract(S.files[R.corruptedFilename].sheets)],
        st |-> S]

\* removeDuplicates, the new workbook, "Save to temporary file first"
rebuildWritten(R, S, built) ==
  [rb |-> [R EXCEPT !.pc = "written", !.sheets = built.sheets, !.stats = built.stats,
                    !.success = TRUE, !.newFilename = R.tempFilename],
   st |-> [S EXCEPT !.files = WriteFileTo(@, R.tempFilename, Content(built.sheets))]]

rebuildWriteStep(R, S, fails) ==
  IF fails
  THEN [rb |-> rebuildThrown(R, "tempWrite"), st |-> S]
  ELSE rebuildWritten(R, S, rebuildResult(R.extractedData))

\* "Remove the corrupted original file": fs.unlinkSync inside the inner try
rebuildUnlinkStep(R, S, fails) ==
  IF ~R.replaceOriginal
  THEN [rb |-> [R EXCEPT !.pc = "done"], st |-> S]
  ELSE IF ~existsSync(S.files, R.corruptedFilename)
  THEN [rb |-> [R EXCEPT !.pc = "unlinked"], st |-> S]
  ELSE IF fails
  THEN [rb |-> [R EXCEPT !.pc = "done", !.failed = @ \cup {"unlink"}], st |-> S]
  ELSE [rb |-> [R EXCEPT !.pc = "unlinked"],
        st |-> [S EXCEPT !.files = RemoveFile(@, R.corruptedFilename)]]

\* "Rename temp file to original filename": fs.renameSync, then the global
rebuildRenameStep(R, S, fails) ==
  IF fails
  THEN [rb |-> [R EXCEPT !.pc = "done", !.failed = @ \cup {"rename"}], st |-> S]
  ELSE [rb |-> [R EXCEPT !.pc = "done", !.newFilename = R.corruptedFilename,
                         !.replacedOriginal = TRUE],
        st |-> [S EXCEPT !.files = WriteFileTo(RemoveFile(@, R.tempFilename),
                                               R.corruptedFilename, S.files[R.tempFilename]),
                         !.masterFilename = R.corruptedFilename]]

----------------------------------------------------------------------------
(* initializeDynamicExcel, addPropertyToExcelSafely                        *)

\* getMasterFilename(): master-listings.xlsx (the other two candidate names
\* are files this code never creates)
getMasterFilename == MasterListings

\* createAutomaticBackup(filename): a failure is caught and answered by null
createAutomaticBackup(S, filename, io) ==
  IF ~existsSync(S.files, filename) \/ "autoBackup" \in io THEN S
  ELSE [S EXCEPT !.backups = @ \cup {S.files[filename]}]

\* initializeDynamicExcel: never throws (the load is inside try/catch)
\* the reload of the rebuilt file; result is what the rebuild returned
initializeReload(result, io) ==
  IF ~result.success THEN result.st
  ELSE IF ~Readable(result.st.files, result.newFilename) \/ "reload" \in io THEN result.st
  ELSE [result.st EXCEPT !.masterWorkbook = Workbook(result.st.files[result.newFilename].sheets),
                         !.masterFilename = result.newFilename]

\* the load of an existing master file; S0 is the state with the two new
\* workbooks
initializeLoad(S0, name, io) ==
  IF ~existsSync(S0.files, name) THEN S0
  ELSE IF ~Readable(S0.files, name) \/ "initRead" \in io THEN S0
  ELSE IF validateExcelFileHealth(S0.files, name, io).isHealthy
  THEN [S0 EXCEPT !.masterWorkbook = Workbook(S0.files[name].sheets)]
  ELSE initializeReload(
         rebuildCorruptedMasterFile(
           [S0 EXCEPT !.masterWorkbook = Workbook(S0.files[name].sheets)], name, TRUE, io),
         io)

initializeDynamicExcel(S, io) ==
  initializeLoad([S EXCEPT !.dailyWorkbook = NewWorkbook, !.masterWorkbook = NewWorkbook,
                           !.masterFilename = getMasterFilename],
                 getMasterFilename, io)

\* getMasterFileStats().totalRows: header rows are counted
getMasterFileStats(S) ==
  IF S.masterWorkbook.null THEN 0
  ELSE SumSeq([i \in 1..Len(S.masterWorkbook.sheets) |-> rowCount(S.masterWorkbook.sheets[i])])

\* "Reinitialize after rebuild" and the addition; S2 is the state after the
\* rebuild
addPropertyAfterRebuild(S2, property, io) ==
  IF ~Readable(S2.files, S2.masterFilename) \/ "reload" \in io
  THEN {[Thrown([S2 EXCEPT !.masterWorkbook = NewWorkbook]) EXCEPT !.rebuilt = TRUE]}
  ELSE {[r EXCEPT !.rebuilt = TRUE] :
          r \in addPropertyToExcel(
                  [S2 EXCEPT !.masterWorkbook = Workbook(S2.files[S2.masterFilename].sheets)],
                  property, io)}

\* the branch taken above 90% of the row limit; S1 is the state after the
\* automatic backup
addPropertyNearLimit(S1, totalRows, property, io) ==
  IF ~(totalRows > SAFE_MAX_ROWS)
  THEN addPropertyToExcel(S1, property, io)
  ELSE addPropertyAfterRebuild(
         rebuildCorruptedMasterFile(S1, S1.masterFilename, TRUE, io).st, property, io)

addPropertyToExcelSafely(S, property, io) ==
  IF S.dailyWorkbook.null \/ S.masterWorkbook.null
  THEN {Thrown(S)}
  ELSE IF ~(10 * getMasterFileStats(S) > 9 * SAFE_MAX_ROWS)
  THEN addPropertyToExcel(S, property, io)
  ELSE addPropertyNearLimit(createAutomaticBackup(S, S.masterFilename, io),
                            getMasterFileStats(S), property, io)

----------------------------------------------------------------------------
(* The spill buffer: addPropertyToMemoryEfficientSystem, flushToTempFile,  *)
(* loadAllDataFromTempFiles, cleanupTempFiles.  A temp file is named by    *)
(* the counter value it was written under (temp-scrape-NNN.json).          *)

flushToTempFile(S, io) ==
  IF Len(S.currentTempData) = 0 THEN Returned(S)
  ELSE IF "segWrite" \in io THEN Thrown(S)
  ELSE Returned([S EXCEPT
         !.tempDisk = (S.tempFileCounter :> S.currentTempData) @@ S.tempDisk,
         !.tempFiles = Append(@, S.tempFileCounter),
         !.currentTempData = <<>>,
         !.tempFileCounter = @ + 1])

addPropertyToMemoryEfficientSystem(S, property, io) ==
  LET pushed == [S EXCEPT !.currentTempData = Append(@, property)]
      added == addPropertyToExcelSafely(pushed, property, io)
  IN {IF r.threw THEN r
      ELSE IF Len(r.st.currentTempData) >= MAX_PROPERTIES_IN_MEMORY
      THEN [r EXCEPT !.st = flushToTempFile(r.st, io).st,
                     !.threw = flushToTempFile(r.st, io).threw]
      ELSE r : r \in added}

\* the records of the temp files that can be read back, in tempFiles order;
\* unreadable is the set of temp files whose read fails (caught and logged)
RECURSIVE loadTempFiles(_, _, _)
loadTempFiles(names, disk, unreadable) ==
  IF names = <<>> THEN <<>>
  ELSE (IF Head(names) \in DOMAIN disk /\ Head(names) \notin unreadable
        THEN disk[Head(names)] ELSE <<>>)
       \o loadTempFiles(Tail(names), disk, unreadable)

loadAllDataFromTempFiles(S, unreadable) ==
  S.currentTempData \o loadTempFiles(S.tempFiles, S.tempDisk, unreadable)

\* cleanupTempFiles: undeletable is the set of temp files whose unlink fails
cleanupTempFiles(S, io, undeletable) ==
  LET flushed == flushToTempFile(S, io)
  IN IF flushed.threw THEN S
     ELSE
       LET F == flushed.st
           gone == {F.tempFiles[i] : i \in 1..Len(F.tempFiles)} \ undeletable
       IN [F EXCEPT !.tempDisk = [n \in DOMAIN F.tempDisk \ gone |-> F.tempDisk[n]],
                    !.tempFiles = <<>>,
                    !.currentTempData = <<>>,
                    !.tempFileCounter = 0]

----------------------------------------------------------------------------
(* Observation of a run: what the callers of the subsystem have seen.     *)
(*   hist       the ingestion calls since the last other operation on the *)
(*              store, at most the last two                               *)
(*   calls      number of ingestion calls made                            *)
(*   sessions   number of initializeDynamicExcel calls made               *)
(*   accepted   the candidates for which a row was appended to the master *)
(*   lastOp     the operation that ran last                               *)
(*   tracked    the records passed to addPropertyToMemoryEfficientSystem, *)
(*              each with whether the call threw                          *)
(*   readFailed a temp file could not be read back                        *)
(*   loaded     the value returned by loadAllDataFromTempFiles            *)
(*   pc, queue, urlIndex   position of scrapeFromListingsPageWithDynamicUpdates, *)
(*              number of URLs left, loop index                           *)
(*   rebuild    the call of rebuildCorruptedMasterFile in progress: its   *)
(*              position, its local variables and what it found at entry  *)
(*   data, unique   the argument and the result of a removeDuplicates     *)
(*              pass over a batch                                         *)
(*   health     the value returned by validateExcelFileHealth             *)

VARIABLES hist, calls, sessions, accepted, lastOp,
          tracked, readFailed, loaded, pc, queue, urlIndex,
          rebuild, data, unique, health

toolVars == <<rebuild, data, unique, health>>
obsVars == <<hist, calls, sessions, accepted, lastOp,
             tracked, readFailed, loaded, pc, queue, urlIndex, toolVars>>
vars == <<progVars, obsVars>>

AllRows(sheets) == UNION {{sheets[i].rows[j] : j \in 1..Len(sheets[i].rows)} : i \in 1..Len(sheets)}
KeysOf(sheets) == {CompositeKey(r) : r \in AllRows(sheets)}

\* one ingestion call: fresh tells that the master workbook held no row with
\* the candidate's CompositeKey when addPropertyToWorkbook was reached,
\* rebuilt that rebuildCorruptedMasterFile ran inside the call
Event(property, r) ==
  [property |-> property, threw |-> r.threw, reached |-> r.reached, added |-> r.added,
   rebuilt |-> r.rebuilt,
   fresh |-> CompositeKey(property) \notin KeysOf(r.at),
   rowsBefore |-> TotalDataRows(r.at),
   rowsAfter |-> TotalDataRows(r.st.masterWorkbook.sheets)]

\* the ingestion calls made since the last other operation on the store, at
\* most the last two
Remember(property, r) ==
  IF Len(hist) = 0 THEN <<Event(property, r)>>
  ELSE <<hist[Len(hist)], Event(property, r)>>

----------------------------------------------------------------------------
(* Inputs *)

MaxIngest == 4
MaxSessions == 2
MaxIngestOneSession == 3

Base == Rec(<<"1">>, <<"a">>, <<"m", "5">>, <<"b">>, <<"1", "a">>)
PriceChanged == [Base EXCEPT !.PRICE = <<"2">>, !.DATE = <<"2">>]
AgentChanged == [Base EXCEPT !.AGENT = <<"m">>]
AddressPadded == [Base EXCEPT !.ADDRESS = <<"A", " ">>]
PostalPadded == [Base EXCEPT !.POSTAL = <<" ", "m", "5">>]
PriceUpper == [Base EXCEPT !.PRICE = <<"1", "A">>]
NoPostal == [Base EXCEPT !.POSTAL = <<>>]
OtherListing == [Base EXCEPT !.ADDRESS = <<"b">>]

\* the candidates the crawler can emit
Candidates == {Base, PriceChanged, AgentChanged, AddressPadded, PostalPadded,
               PriceUpper, NoPostal, OtherListing}

\* the candidates of the runs that span several sessions
CoreCandidates == {Base, PriceChanged, PostalPadded, NoPostal, OtherListing}

NoIO == {}

----------------------------------------------------------------------------
(* Specification of the exported operations, called as the test program   *)
(* and the repair tool call them: sessions of initializeDynamicExcel,     *)
(* ingestions and finalizeDynamicExcel; validateMasterFileIntegrity and   *)
(* rebuildCorruptedMasterFile between sessions.                           *)

InitStore(position, batch, disk) ==
  /\ dailyWorkbook = NullWorkbook
  /\ masterWorkbook = NullWorkbook
  /\ masterFilename = MasterListings
  /\ files = disk
  /\ backups = {}
  /\ tempFileCounter = 0
  /\ currentTempData = <<>>
  /\ tempFiles = <<>>
  /\ tempDisk = <<>>
  /\ hist = <<>>
  /\ calls = 0
  /\ sessions = 0
  /\ accepted = {}
  /\ lastOp = "none"
  /\ tracked = <<>>
  /\ readFailed = FALSE
  /\ loaded = <<>>
  /\ pc = position
  /\ queue = 0
  /\ urlIndex = 0
  /\ rebuild = NoRebuild
  /\ data = batch
  /\ unique = <<>>
  /\ health = NoHealth

InitWith(position, batch) == InitStore(position, batch, <<>>)

InitAt(position) == InitWith(position, <<>>)

Init == InitAt("api")

spillObs == <<tracked, readFailed, loaded, pc, queue, urlIndex, toolVars>>

Accepting(property, r) == IF r.added /\ ~r.threw THEN accepted \cup {property} ELSE accepted

InitializeUpTo(limit) ==
  /\ sessions < limit
  /\ Becomes(initializeDynamicExcel(Cur, NoIO))
  /\ hist' = <<>>
  /\ sessions' = sessions + 1
  /\ lastOp' = "initialize"
  /\ UNCHANGED <<calls, accepted, spillObs>>

AddPropertyFrom(pool, limit) ==
  /\ calls < limit
  /\ \E property \in pool : \E r \in addPropertyToExcel(Cur, property, NoIO) :
       /\ Becomes(r.st)
       /\ hist' = Remember(property, r)
       /\ calls' = calls + 1
       /\ accepted' = Accepting(property, r)
       /\ lastOp' = "add"
       /\ UNCHANGED <<sessions, spillObs>>

AddPropertySafelyFrom(pool, limit) ==
  /\ calls < limit
  /\ \E property \in pool : \E r \in addPropertyToExcelSafely(Cur, property, NoIO) :
       /\ Becomes(r.st)
       /\ hist' = Remember(property, r)
       /\ calls' = calls + 1
       /\ accepted' = Accepting(property, r)
       /\ lastOp' = "add"
       /\ UNCHANGED <<sessions, spillObs>>

TrackFrom(pool, limit) ==
  /\ calls < limit
  /\ \E property \in pool : \E r \in addPropertyToMemoryEfficientSystem(Cur, property, NoIO) :
       /\ Becomes(r.st)
       /\ hist' = Remember(property, r)
       /\ calls' = calls + 1
       /\ accepted' = Accepting(property, r)
       /\ lastOp' = "add"
       /\ tracked' = Append(tracked, [property |-> property, threw |-> r.threw])
       /\ UNCHANGED <<sessions, readFailed, loaded, pc, queue, urlIndex, toolVars>>

Finalize ==
  \E r \in finalizeDynamicExcel(Cur, NoIO) :
    /\ Becomes(r.st)
    /\ hist' = <<>>
    /\ lastOp' = IF r.threw THEN lastOp ELSE "finalize"
    /\ UNCHANGED <<calls, sessions, accepted, spillObs>>

ValidateIntegrity ==
  /\ masterWorkbook.null
  /\ \E r \in validateMasterFileIntegrity(Cur, masterFilename, NoIO) :
       /\ Becomes(r.st)
       /\ hist' = <<>>
       /\ lastOp' = "validate"
       /\ UNCHANGED <<calls, sessions, accepted, spillObs>>

Rebuild ==
  /\ masterWorkbook.null
  /\ Becomes(rebuildCorruptedMasterFile(Cur, getMasterFilename, TRUE, NoIO).st)
  /\ hist' = <<>>
  /\ lastOp' = "rebuild"
  /\ UNCHANGED <<calls, sessions, accepted, spillObs>>

Initialize == InitializeUpTo(MaxSessions)
AddProperty == AddPropertyFrom(CoreCandidates, MaxIngest)
AddPropertySafely == AddPropertySafelyFrom(CoreCandidates, MaxIngest)

Next == Initialize \/ AddProperty \/ AddPropertySafely \/ Finalize \/ ValidateIntegrity \/ Rebuild

Spec == Init /\ [][Next]_vars

----------------------------------------------------------------------------
(* Specification of one ingestion session over every kind of candidate,   *)
(* through the three entry points                                          *)

StartSession == InitializeUpTo(1)
Ingest == AddPropertyFrom(Candidates, MaxIngestOneSession)
IngestSafely == AddPropertySafelyFrom(Candidates, MaxIngestOneSession)
IngestTracked == TrackFrom(Candidates, MaxIngestOneSession)

NextIngest == StartSession \/ Ingest \/ IngestSafely \/ IngestTracked

SpecIngest == Init /\ [][NextIngest]_vars

----------------------------------------------------------------------------
(* Specification of scrapeFromListingsPageWithDynamicUpdates: one run of   *)
(* the workflow, with the failures its I/O can have.  pc is the position   *)
(* in the function: "start", "loop" (before an iteration or past the last  *)
(* one), "finalized" (finalizeDynamicExcel returned), "loaded"             *)
(* (loadAllDataFromTempFiles returned), "returned", and "failed" when an   *)
(* exception left the function through its finally block.                  *)

MaxUrls == 3

\* what scraper.scrapeProperty resolves to, when it does not throw
ScrapePool == {Base, OtherListing}

\* the I/O failures of one addPropertyToMemoryEfficientSystem call
TrackIO == {NoIO, {"masterWrite"}, {"segWrite"}}

IndexDigit(n) == CASE n = 0 -> "0" [] n = 1 -> "1" [] n = 2 -> "2" [] OTHER -> "3"

ErrorText == <<"E", "r", "r", "o", "r">>

\* the placeholder built in the catch block of the loop
errorProperty(n) ==
  Rec(Today, ErrorText \o <<"-", IndexDigit(n)>>, ErrorText, ErrorText, ErrorText)

apiObs == <<hist, calls, sessions, accepted, lastOp, toolVars>>

InitScrape == InitAt("start")

\* one track() call as the loop sees it
trackCall(S, property, io) ==
  {[st |-> r.st, threw |-> r.threw, tracked |-> <<[property |-> property, threw |-> r.threw]>>] :
     r \in addPropertyToMemoryEfficientSystem(S, property, io)}

\* the catch block: track the placeholder; a throw here leaves the function
catchBlock(S, n, before, io) ==
  {[c EXCEPT !.tracked = before \o @] : c \in trackCall(S, errorProperty(n), io)}

\* the body of the for loop for URL number n
loopBody(S, n, scrapeThrows, scraped, io1, io2) ==
  LET tried == IF scrapeThrows THEN {[st |-> S, threw |-> TRUE, tracked |-> <<>>]}
               ELSE trackCall(S, scraped, io1)
  IN UNION {IF t.threw THEN catchBlock(t.st, n, t.tracked, io2) ELSE {t} : t \in tried}

\* scraper.initialize() or scraper.extractPropertyUrls() throws
ScrapeStartFails ==
  /\ pc = "start"
  /\ \E initialized \in BOOLEAN :
       IF initialized THEN Becomes(initializeDynamicExcel(Cur, NoIO)) ELSE UNCHANGED progVars
  /\ pc' = "failed"
  /\ UNCHANGED <<apiObs, tracked, readFailed, loaded, queue, urlIndex>>

\* initializeDynamicExcel, then the URLs: none (return []) or n of them
ScrapeStart ==
  /\ pc = "start"
  /\ Becomes(initializeDynamicExcel(Cur, NoIO))
  /\ \E n \in 0..MaxUrls :
       /\ queue' = n
       /\ pc' = IF n = 0 THEN "returned" ELSE "loop"
  /\ UNCHANGED <<apiObs, tracked, readFailed, loaded, urlIndex>>

ScrapeIteration ==
  /\ pc = "loop"
  /\ queue > 0
  /\ \E scrapeThrows \in BOOLEAN, scraped \in ScrapePool, io1 \in TrackIO, io2 \in TrackIO :
       \E out \in loopBody(Cur, urlIndex, scrapeThrows, scraped, io1, io2) :
         /\ Becomes(out.st)
         /\ tracked' = tracked \o out.tracked
         /\ pc' = IF out.threw THEN "failed" ELSE "loop"
         /\ queue' = queue - 1
         /\ urlIndex' = urlIndex + 1
  /\ UNCHANGED <<apiObs, readFailed, loaded>>

ScrapeFinalize ==
  /\ pc = "loop"
  /\ queue = 0
  /\ \E io \in {NoIO, {"masterWrite"}} : \E r \in finalizeDynamicExcel(Cur, io) :
       /\ Becomes(r.st)
       /\ pc' = IF r.threw THEN "failed" ELSE "finalized"
  /\ UNCHANGED <<apiObs, tracked, readFailed, loaded, queue, urlIndex>>

ScrapeLoad ==
  /\ pc = "finalized"
  /\ \E unreadable \in SUBSET {tempFiles[k] : k \in 1..Len(tempFiles)} :
       /\ loaded' = loadAllDataFromTempFiles(Cur, unreadable)
       /\ readFailed' = (unreadable # {})
  /\ pc' = "loaded"
  /\ UNCHANGED <<progVars, apiObs, tracked, queue, urlIndex>>

ScrapeCleanup ==
  /\ pc = "loaded"
  /\ \E io \in {NoIO, {"segWrite"}} :
       \E undeletable \in SUBSET ({tempFiles[k] : k \in 1..Len(tempFiles)} \cup {tempFileCounter}) :
         Becomes(cleanupTempFiles(Cur, io, undeletable))
  /\ pc' = "returned"
  /\ UNCHANGED <<apiObs, tracked, readFailed, loaded, queue, urlIndex>>

NextScrape ==
  \/ ScrapeStartFails
  \/ ScrapeStart
  \/ ScrapeIteration
  \/ ScrapeFinalize
  \/ ScrapeLoad
  \/ ScrapeCleanup

SpecScrape == InitScrape /\ [][NextScrape]_vars

----------------------------------------------------------------------------
(* Specification of a repair: one session that ingests records, with the   *)
(* master file write failing or not, and then one call of                  *)
(* rebuildCorruptedMasterFile on the master file, one I/O operation at a   *)
(* time, each of which can fail.                                           *)

MaxRepairIngest == 3

\* another listing of the same postal code, written with a leading blank
OtherPadded == [OtherListing EXCEPT !.POSTAL = <<" ", "m", "5">>]

RepairPool == {Base, PriceChanged, AgentChanged, NoPostal, OtherListing, OtherPadded}

RepairSession ==
  /\ rebuild.pc = "idle"
  /\ InitializeUpTo(1)

RepairIngest ==
  /\ rebuild.pc = "idle"
  /\ calls < MaxRepairIngest
  /\ \E property \in RepairPool, io \in {NoIO, {"masterWrite"}} :
       \E r \in addPropertyToExcel(Cur, property, io) :
         /\ Becomes(r.st)
         /\ hist' = Remember(property, r)
         /\ calls' = calls + 1
         /\ accepted' = Accepting(property, r)
         /\ lastOp' = "add"
         /\ UNCHANGED <<sessions, spillObs>>

\* the frame of a step of the rebuild
RebuildStep(o) ==
  /\ Becomes(o.st)
  /\ rebuild' = o.rb
  /\ lastOp' = "rebuild"
  /\ UNCHANGED <<hist, calls, sessions, accepted, tracked, readFailed, loaded,
                 pc, queue, urlIndex, data, unique, health>>

RebuildBackup ==
  /\ rebuild.pc = "idle"
  /\ \E fails \in BOOLEAN :
       RebuildStep(rebuildBackupStep(rebuildEnter(Cur, getMasterFilename, TRUE), Cur, fails))

RebuildExtract ==
  /\ rebuild.pc = "backedUp"
  /\ \E fails \in BOOLEAN : RebuildStep(rebuildExtractStep(rebuild, Cur, fails))

RebuildWrite ==
  /\ rebuild.pc = "extracted"
  /\ \E fails \in BOOLEAN : RebuildStep(rebuildWriteStep(rebuild, Cur, fails))

RebuildUnlink ==
  /\ rebuild.pc = "written"
  /\ \E fails \in BOOLEAN : RebuildStep(rebuildUnlinkStep(rebuild, Cur, fails))

RebuildRename ==
  /\ rebuild.pc = "unlinked"
  /\ \E fails \in BOOLEAN : RebuildStep(rebuildRenameStep(rebuild, Cur, fails))

NextRepair ==
  \/ RepairSession
  \/ RepairIngest
  \/ RebuildBackup
  \/ RebuildExtract
  \/ RebuildWrite
  \/ RebuildUnlink
  \/ RebuildRename

SpecRepair == Init /\ [][NextRepair]_vars

----------------------------------------------------------------------------
(* Specification of one removeDuplicates pass: the batch is any sequence   *)
(* of at most MaxBatch candidates                                          *)

MaxBatch == 3

\* records whose ADDRESS or POSTAL holds the '-' of the key strings
DashAddress == [Base EXCEPT !.ADDRESS = <<"a", "-", "b">>]
DashPostal == [Base EXCEPT !.POSTAL = <<"b", "-", "m", "5">>]
DashKey == [PriceChanged EXCEPT !.POSTAL = <<"m", "5", "-", "2", "-", "b">>]

DedupPool == Candidates \cup {DashAddress, DashPostal, DashKey}

Batches == UNION {[1..n -> DedupPool] : n \in 0..MaxBatch}

InitDedup == \E batch \in Batches : InitWith("batch", batch)

RemoveDuplicates ==
  /\ pc = "batch"
  /\ lastOp = "none"
  /\ unique' = removeDuplicates(data)
  /\ lastOp' = "removeDuplicates"
  /\ UNCHANGED <<progVars, hist, calls, sessions, accepted, tracked, readFailed, loaded,
                 pc, queue, urlIndex, rebuild, data, health>>

\* the same sequence fed to incremental ingestion, one record per call, into
\* an initially empty master store
FeedSession ==
  /\ pc = "batch"
  /\ lastOp = "removeDuplicates"
  /\ InitializeUpTo(1)

FeedNext ==
  /\ pc = "batch"
  /\ sessions = 1
  /\ calls < Len(data)
  /\ \E r \in addPropertyToExcel(Cur, data[calls + 1], NoIO) :
       /\ Becomes(r.st)
       /\ hist' = Remember(data[calls + 1], r)
       /\ calls' = calls + 1
       /\ accepted' = Accepting(data[calls + 1], r)
       /\ lastOp' = "add"
       /\ UNCHANGED <<sessions, spillObs>>

NextDedup == RemoveDuplicates \/ FeedSession \/ FeedNext

SpecDedup == InitDedup /\ [][NextDedup]_vars

----------------------------------------------------------------------------
(* Specification of one validateExcelFileHealth call on a master file of   *)
(* one or two worksheets: the first holds up to MaxValidRows rows with     *)
(* address and postal code, up to MaxEmptyRows rows without postal code    *)
(* and possibly a row whose address is a blank                             *)

MaxValidRows == 20
MaxEmptyRows == 2

Letters == <<"A", "B", "M", "O", "R">>

\* the k-th stored row with address and postal code
ValidRow(k) ==
  Rec(<<"1">>, <<Letters[((k - 1) \div 5) + 1], Letters[((k - 1) % 5) + 1]>>,
      <<"M", "5">>, <<"B">>, <<"1", "a">>)

EmptyRow == uppercaseProperty(NoPostal)
BlankRow == [ValidRow(1) EXCEPT !.ADDRESS = <<" ">>]

HealthSheet(v, e, b) ==
  [name |-> <<"M", "5">>,
   rows |-> [k \in 1..v |-> ValidRow(k)] \o [k \in 1..e |-> EmptyRow]
              \o [k \in 1..b |-> BlankRow]]

HealthStores ==
  {<<HealthSheet(v, e, b)>> \o more :
     v \in 0..MaxValidRows, e \in 0..MaxEmptyRows, b \in 0..1,
     more \in {<<>>, <<[name |-> <<"B", "5">>, rows |-> <<ValidRow(21)>>]>>}}

InitHealth ==
  \E sheets \in HealthStores : InitStore("health", <<>>, MasterListings :> Content(sheets))

ValidateHealth ==
  /\ pc = "health"
  /\ ~health.ran
  /\ \E io \in {NoIO, {"healthRead"}} :
       health' = [ran |-> TRUE,
                  isHealthy |-> healthScan(files, MasterListings, io).isHealthy,
                  issues |-> healthScan(files, MasterListings, io).issues,
                  stats |-> healthScan(files, MasterListings, io).stats]
  /\ lastOp' = "health"
  /\ UNCHANGED <<progVars, hist, calls, sessions, accepted, tracked, readFailed, loaded,
                 pc, queue, urlIndex, rebuild, data, unique>>

NextHealth == ValidateHealth

SpecHealth == InitHealth /\ [][NextHealth]_vars

----------------------------------------------------------------------------
(* Properties of the master store                                          *)

\* the master store: the open master workbook during a session, the master
\* file between sessions
MasterSheets ==
  IF ~masterWorkbook.null THEN masterWorkbook.sheets
  ELSE IF Readable(files, MasterListings) THEN files[MasterListings].sheets
  ELSE <<>>

\* the positions (sheet, row) of the rows of the master store
RowPositions == {<<s, n>> \in (1..Len(MasterSheets)) \X (1..(MaxIngest + 1)) :
                   n <= Len(MasterSheets[s].rows)}
RowAt(pos) == MasterSheets[pos[1]].rows[pos[2]]

\* C1 (key uniqueness): no two rows of the master store share a
\* CompositeKey, case and whitespace variants of a row included; stated for
\* the rows that have an address and a postal code, which every reading of
\* the claim covers
C1_KeyUniqueness ==
  \A p1, p2 \in RowPositions :
    (p1 # p2 /\ WellFormed(RowAt(p1)) /\ WellFormed(RowAt(p2)))
      => CompositeKey(RowAt(p1)) # CompositeKey(RowAt(p2))

\* two ingestion calls that followed each other with no other operation on
\* the store between them, both of which got to the duplicate check and
\* returned
TwoIngestions ==
  /\ Len(hist) = 2
  /\ hist[1].reached /\ ~hist[1].threw
  /\ hist[2].reached /\ ~hist[2].threw

\* C2 (idempotence): a record whose CompositeKey the store does not hold,
\* ingested twice in a row, is appended by the first call and skipped by the
\* second, and the store holds one row more than before
C2_Idempotence ==
  (TwoIngestions /\ hist[1].property = hist[2].property /\ hist[1].fresh)
    => /\ hist[1].added
       /\ ~hist[2].added
       /\ hist[2].rowsAfter = hist[1].rowsBefore + 1

C4_AppendOnly ==
  lastOp \in {"finalize", "validate"}
    => \A property \in accepted :
         WellFormed(property) => CompositeKey(property) \in KeysOf(MasterSheets)

\* C5 (shard capacity): no shard of the master store holds more than
\* MAX_ROWS_PER_POSTAL_SHEET records
C5_ShardCapacity ==
  \A s \in 1..Len(MasterSheets) : Len(MasterSheets[s].rows) <= MAX_ROWS_PER_POSTAL_SHEET

\* C6 (store capacity): the master store never holds more than
\* SAFE_MAX_ROWS rows, whatever entry point the records came through
C6_StoreCapacity == TotalDataRows(MasterSheets) <= SAFE_MAX_ROWS

----------------------------------------------------------------------------
(* Properties of the spill buffer                                          *)

T == MAX_PROPERTIES_IN_MEMORY

Tracked == [k \in 1..Len(tracked) |-> tracked[k].property]
TrackThrew == \E k \in 1..Len(tracked) : tracked[k].threw
NoIOFailure == ~TrackThrew /\ ~readFailed

\* the records of the segments on disk
RecordsOnDisk == UNION {{tempDisk[f][k] : k \in 1..Len(tempDisk[f])} : f \in DOMAIN tempDisk}
RecordsLoaded == {loaded[k] : k \in 1..Len(loaded)}

\* the segment number m holds the records m*T+1 .. min(m*T+T, n) of the
\* tracked sequence
SegmentHolds(m) ==
  /\ m \in DOMAIN tempDisk
  /\ tempDisk[m] = SubSeq(Tracked, m * T + 1,
                          IF m * T + T <= Len(tracked) THEN m * T + T ELSE Len(tracked))

\* C7 (spill round trip): with no I/O failure, loadAllDataFromTempFiles
\* returns exactly the sequence of records passed to
\* addPropertyToMemoryEfficientSystem, in ingestion order
C7_RoundTrip ==
  (pc \in {"loaded", "returned"} /\ urlIndex > 0 /\ NoIOFailure) => loaded = Tracked

\* C8 (nothing lost on stop): when the workflow has ended, normally or by
\* an error, every record whose track() call returned is in the value
\* returned by loadAllDataFromTempFiles or in a segment still on disk
C8_NothingLost ==
  pc \in {"returned", "failed"}
    => \A k \in 1..Len(tracked) :
         ~tracked[k].threw => tracked[k].property \in RecordsLoaded \cup RecordsOnDisk

\* C9 (flush schedule): with no I/O failure, after n track() calls the
\* segments 0 .. floor(n/T)-1 are on disk and hold T consecutive records
\* each, and once loadAllDataFromTempFiles has run the remaining n mod T
\* records are on disk as one further segment
C9_FlushSchedule ==
  (pc \in {"loop", "finalized", "loaded"} /\ NoIOFailure)
    => LET n == Len(tracked)
           whole == n \div T
           all == IF n % T = 0 THEN whole ELSE whole + 1
       IN IF pc = "loaded"
          THEN DOMAIN tempDisk = 0..(all - 1) /\ \A m \in 0..(all - 1) : SegmentHolds(m)
          ELSE DOMAIN tempDisk = 0..(whole - 1) /\ \A m \in 0..(whole - 1) : SegmentHolds(m)

\* C10 (bounded buffering): every segment on disk holds at most T records,
\* and between two iterations of the loop the buffer holds fewer than T
\* records, also in runs in which a store write failed inside track()
C10_BoundedBuffering ==
  /\ \A f \in DOMAIN tempDisk : Len(tempDisk[f]) <= T
  /\ pc \in {"loop", "finalized", "loaded"} => Len(currentTempData) < T

----------------------------------------------------------------------------
(* Properties of rebuildCorruptedMasterFile                                *)

\* the rows of a workbook, sheet after sheet
RECURSIVE RowSeq(_)
RowSeq(sheets) == IF sheets = <<>> THEN <<>> ELSE Head(sheets).rows \o RowSeq(Tail(sheets))

WellFormedRows(sheets) == SelectSeq(RowSeq(sheets), WellFormed)
MalformedCount(sheets) == Len(RowSeq(sheets)) - Len(WellFormedRows(sheets))

DistinctKeys(rows) ==
  \A i, j \in 1..Len(rows) : i # j => CompositeKey(rows[i]) # CompositeKey(rows[j])

\* the call has returned success and had read the original store
RebuildReturned == rebuild.pc = "done" /\ rebuild.success /\ rebuild.extractionSuccessful

\* the one-shot and the step-by-step translation of the function agree on
\* the disk, the backups and the value returned
RebuildStepsAgree ==
  rebuild.pc \in {"done", "failed"}
    => LET f == rebuildCorruptedMasterFile(
                  [Cur EXCEPT !.files = rebuild.start.files, !.backups = rebuild.start.backups],
                  rebuild.corruptedFilename, rebuild.replaceOriginal, rebuild.failed)
       IN /\ f.st.files = files
          /\ f.st.backups = backups
          /\ f.st.masterFilename = masterFilename
          /\ f.success = rebuild.success
          /\ f.newFilename = rebuild.newFilename
          /\ f.replacedOriginal = rebuild.replacedOriginal
          /\ f.stats = rebuild.stats

\* C11 (rebuild completeness): when the original store holds M well-formed
\* records with pairwise distinct CompositeKeys and K malformed rows, the
\* rebuilt store holds exactly M rows, one for each of those records, and
\* no malformed row
C11_RebuildCompleteness ==
  (RebuildReturned /\ DistinctKeys(WellFormedRows(rebuild.original.sheets)))
    => /\ Len(RowSeq(rebuild.sheets)) = Len(WellFormedRows(rebuild.original.sheets))
       /\ KeysOf(rebuild.sheets)
            = {CompositeKey(r) : r \in {x \in AllRows(rebuild.original.sheets) : WellFormed(x)}}
       /\ \A r \in AllRows(rebuild.sheets) : WellFormed(r)

\* C12 (accounting of malformed rows): the statistics returned by the
\* rebuild report as corruptedRowsSkipped the number K of rows of the
\* original store whose ADDRESS or POSTAL is empty
C12_SkippedRowsCounted ==
  RebuildReturned
    => rebuild.stats.corruptedRowsSkipped = MalformedCount(rebuild.original.sheets)

\* C13 (backup precedes destruction): in a rebuild of an existing store
\* file, once the call is past the backup step (so before the original is
\* read, deleted or replaced) the backup copy of the original exists; the
\* original is gone or changed only if that copy was made; and a failed
\* backup ends the call with the disk as it was at entry
C13_BackupPrecedesDestruction ==
  rebuild.existed
    => /\ rebuild.pc \in {"backedUp", "extracted", "written", "unlinked", "done"}
            => (rebuild.backedUp /\ rebuild.original \in backups)
       /\ (\/ ~existsSync(files, rebuild.corruptedFilename)
           \/ files[rebuild.corruptedFilename] # rebuild.original)
            => (rebuild.backedUp /\ rebuild.original \in backups)
       /\ "backupCopy" \in rebuild.failed
            => (rebuild.pc = "failed" /\ files = rebuild.start.files)

\* C13 happens: an existing store that held rows was backed up and then
\* replaced by the rebuilt file
C13_Witness ==
  /\ rebuild.existed /\ rebuild.pc = "done" /\ rebuild.replacedOriginal
  /\ rebuild.backedUp /\ rebuild.original \in backups
  /\ rebuild.original.ok /\ RowSeq(rebuild.original.sheets) # <<>>
  /\ files[rebuild.corruptedFilename] # rebuild.original

\* C14 (replacement failure is harmless): when the write of the temporary
\* file, the removal of the original or the rename has failed, the call
\* returns with the original store file and its backup both on disk, with
\* the content the store had at entry
C14_ReplacementFailureHarmless ==
  (/\ rebuild.existed
   /\ rebuild.pc \in {"done", "failed"}
   /\ rebuild.failed \cap {"tempWrite", "unlink", "rename"} # {})
    => /\ existsSync(files, rebuild.corruptedFilename)
       /\ files[rebuild.corruptedFilename] = rebuild.original
       /\ rebuild.original \in backups

----------------------------------------------------------------------------
(* Properties of the writes to the master store file                       *)

\* the step replaces the content of the master store file by one that
\* lacks a row the file held, or by no readable content at all
OmitsRows ==
  /\ Readable(files, MasterListings)
  /\ \/ ~Readable(files', MasterListings)
     \/ ~(KeysOf(files[MasterListings].sheets) \subseteq KeysOf(files'[MasterListings].sheets))

\* C15 (backup is never skipped): every step that rewrites or replaces the
\* master store file with content that omits rows the file held leaves a
\* backup copy of the content the file had before the step
C15_BackupNeverSkipped ==
  [][OmitsRows => files[MasterListings] \in backups']_vars

\* C16 (no half-written store): the master store file, when it exists, is
\* a completely written workbook, also after a write to it has failed
C16_NoHalfWrittenStore ==
  existsSync(files, MasterListings) => files[MasterListings].ok

----------------------------------------------------------------------------
(* Properties of one ingestion call                                        *)

\* the step is an ingestion call that returned, for a well-formed candidate
\* whose CompositeKey the store held when the call compared it
RejectsDuplicate ==
  /\ calls' = calls + 1
  /\ hist'[Len(hist')].reached /\ ~hist'[Len(hist')].threw
  /\ ~hist'[Len(hist')].fresh
  /\ WellFormed(hist'[Len(hist')].property)

\* C17 (rejection has no side effect): an ingestion call whose candidate is
\* an ExactDuplicate of a stored record leaves the rows of the store, the
\* spill buffer and the segments as they were
C17_RejectionNoSideEffect ==
  [][RejectsDuplicate => UNCHANGED <<masterWorkbook, currentTempData, tempFiles, tempDisk>>]_vars

\* C18 (malformed records are absorbed): an ingestion call for a record
\* whose ADDRESS or POSTAL is empty adds no row to the store and does not
\* throw
C18_MalformedAbsorbed ==
  \A k \in 1..Len(hist) :
    (hist[k].reached /\ ~WellFormed(hist[k].property))
      => (~hist[k].added /\ ~hist[k].threw /\ hist[k].rowsAfter = hist[k].rowsBefore)

\* C19 (cleanup postcondition): when the workflow has returned, so after
\* cleanupTempFiles, no segment file is on disk, the buffer and the list of
\* segments are empty and the segment counter is zero
C19_CleanupPostcondition ==
  pc = "returned"
    => /\ DOMAIN tempDisk = {}
       /\ currentTempData = <<>>
       /\ tempFiles = <<>>
       /\ tempFileCounter = 0

----------------------------------------------------------------------------
(* Properties of removeDuplicates                                          *)

\* the reference rule on the first n candidates of a batch: a candidate is
\* kept when no earlier candidate has its CompositeKey
RECURSIVE ReferencePass(_, _)
ReferencePass(batch, n) ==
  IF n = 0 THEN <<>>
  ELSE ReferencePass(batch, n - 1)
         \o (IF \E j \in 1..(n - 1) : CompositeKey(batch[j]) = CompositeKey(batch[n])
             THEN <<>> ELSE <<batch[n]>>)

\* C20 (classification against the reference rule): removeDuplicates keeps,
\* in input order, exactly the candidates that no earlier candidate of the
\* batch matches on CompositeKey
C20_ReferenceClassification ==
  lastOp = "removeDuplicates" => unique = ReferencePass(data, Len(data))

----------------------------------------------------------------------------
(* Properties of the routing to worksheets                                 *)

\* the rows of the master store whose POSTAL has fewer than two characters
\* once normalized
ShortPostal(pos) == Len(normalize(RowAt(pos).POSTAL)) < 2

\* C21 (shard routing): a row of the store is in the worksheet named by the
\* first two characters of its normalized POSTAL, the rows with a shorter
\* POSTAL are all in one worksheet, and two rows with equal PrimaryKey are
\* in the same worksheet
C21_ShardRouting ==
  \A p1, p2 \in RowPositions :
    /\ ~ShortPostal(p1)
         => MasterSheets[p1[1]].name = SubSeq(normalize(RowAt(p1).POSTAL), 1, 2)
    /\ (ShortPostal(p1) /\ ShortPostal(p2)) => p1[1] = p2[1]
    /\ PrimaryKey(RowAt(p1)) = PrimaryKey(RowAt(p2)) => p1[1] = p2[1]

----------------------------------------------------------------------------
(* Properties of validateExcelFileHealth                                   *)

\* the master file as the scan read it
ScannedRows == RowSeq(files[MasterListings].sheets)

\* C22 (store-wide empty-row rule): the scan reports the store-wide issue
\* exactly when emptyRows > 0.05 * totalRows, and isHealthy exactly when it
\* reports no issue
C22_StoreWideEmptyRows ==
  health.ran
    => /\ ("excessive empty rows in file" \in health.issues)
            <=> (20 * health.stats.emptyRows > health.stats.totalRows)
       /\ health.isHealthy <=> (health.issues = {})

\* C23 (invalid-row rule): the scan counts as empty the rows whose ADDRESS
\* or POSTAL is empty after trimming and as valid all the other rows
C23_InvalidRowRule ==
  (health.ran /\ health.stats.totalSheets > 0)
    => /\ health.stats.emptyRows = Len(ScannedRows) - Len(SelectSeq(ScannedRows, WellFormed))
       /\ health.stats.validProperties = Len(SelectSeq(ScannedRows, WellFormed))

----------------------------------------------------------------------------
(* The final duplicate check, observed on the finalize step               *)

\* the step of a finalizeDynamicExcel that returns
FinalizeReturns == lastOp' = "finalize" /\ ~masterWorkbook.null /\ masterWorkbook'.null

\* the PrimaryKeys of the valid rows of a worksheet
ValidKeys(rows) == {PrimaryKey(rows[k]) : k \in {j \in 1..Len(rows) : WellFormed(rows[j])}}

ListingsKept(before, after) ==
  \A i \in 1..Len(before) : ValidKeys(before[i].rows) \subseteq ValidKeys(after[i].rows)

\* C24 (the duplicate check loses no listing): every PrimaryKey with a valid
\* row in a worksheet before the check still has a row in it afterwards
C24_NoListingLost ==
  [][FinalizeReturns => ListingsKept(masterWorkbook.sheets, files'[MasterListings].sheets)]_vars

NoTwoRowsSameKey(rows) ==
  \A j \in 1..Len(rows) : \A k \in 1..Len(rows) : j # k => PrimaryKey(rows[j]) # PrimaryKey(rows[k])

RowsLeftCounted(before, after) ==
  Len(after) = Len(SelectSeq(before, WellFormed)) - dupCheckSheet(cleanupEmptyRows(before)).duplicates

DuplicateFree(before, after) ==
  \A i \in 1..Len(after) :
    NoTwoRowsSameKey(after[i].rows) /\ RowsLeftCounted(before[i].rows, after[i].rows)

\* C25 (postcondition of the duplicate check): afterwards no worksheet holds
\* two rows with the same PrimaryKey, and each worksheet is left with its
\* valid rows minus the duplicates counted for it
C25_NoDuplicateLeft ==
  [][FinalizeReturns => DuplicateFree(masterWorkbook.sheets, files'[MasterListings].sheets)]_vars

----------------------------------------------------------------------------
(* The two deduplicators on the same sequence                             *)

\* the whole batch has been through removeDuplicates and through ingestion
BothPassesDone == pc = "batch" /\ sessions = 1 /\ calls = Len(data)

\* C26 (the two deduplicators agree): the records removeDuplicates keeps are
\* exactly the records incremental ingestion adds to an empty master store
C26_DeduplicatorsAgree ==
  BothPassesDone
    => /\ {unique[k] : k \in 1..Len(unique)} = accepted
       /\ Len(unique) = TotalDataRows(masterWorkbook.sheets)

----------------------------------------------------------------------------
(* The key strings of removeDuplicates                                    *)

\* the `seen` map at the end of the pass over the batch
SeenMap == removeDuplicatesLoop(data, [seen |-> <<>>, unique |-> <<>>]).seen

\* equal primary key strings come from equal normalized ADDRESS and POSTAL
PrimaryKeysInjective(batch) ==
  \A j \in 1..Len(batch) : \A k \in 1..Len(batch) :
    removeDuplicatesPrimaryKey(batch[j]) = removeDuplicatesPrimaryKey(batch[k])
      => PrimaryKey(batch[j]) = PrimaryKey(batch[k])

\* no primary key string is the detailed key string stored for another record
NoKeyClash(batch, seen) ==
  \A j \in 1..Len(batch) : \A key \in DOMAIN seen :
    (key = removeDuplicatesDetailedKey(seen[key]) /\ seen[key] # batch[j])
      => removeDuplicatesPrimaryKey(batch[j]) # key

\* C27 (unambiguous key encoding): in removeDuplicates equal primary key
\* strings mean equal normalized ADDRESS and POSTAL, and no primary key
\* string equals the detailed key string stored for another record
C27_KeyEncodingUnambiguous ==
  lastOp = "removeDuplicates" => PrimaryKeysInjective(data) /\ NoKeyClash(data, SeenMap)

----------------------------------------------------------------------------
(* The spill state across a track() call that raises                      *)

\* the step of an addPropertyToMemoryEfficientSystem call that raises
TrackRaises == Len(tracked') = Len(tracked) + 1 /\ tracked'[Len(tracked')].threw

\* C28 (a failed track() changes nothing in the spill state): when the call
\* raises, the buffer, the written segments and segmentCounter are as before
C28_FailedTrackNoEffect ==
  [][TrackRaises => UNCHANGED <<currentTempData, tempFiles, tempFileCounter>>]_vars

----------------------------------------------------------------------------
(* The session window of the two workbook handles                         *)

HandlesUnset == dailyWorkbook.null \/ masterWorkbook.null

\* the handles are set by initializeDynamicExcel and by nothing else, and
\* unset by a finalizeDynamicExcel that returns and by nothing else
WindowStep ==
  /\ sessions' = sessions + 1 => ~HandlesUnset'
  /\ (HandlesUnset /\ ~HandlesUnset') => sessions' = sessions + 1
  /\ (~HandlesUnset /\ HandlesUnset') => lastOp' = "finalize"

\* outside the window addPropertyToExcel and finalizeDynamicExcel raise and
\* leave the workbooks and the files as they were
OutsideWindowStep ==
  (HandlesUnset /\ (AddProperty \/ Finalize))
    => /\ UNCHANGED <<dailyWorkbook, masterWorkbook, files, accepted>>
       /\ calls' = calls + 1 => hist'[Len(hist')].threw
       /\ calls' = calls => lastOp' = lastOp

\* C29 (session lifecycle of the store handles): addPropertyToExcel and
\* finalizeDynamicExcel succeed only between initializeDynamicExcel and the
\* next finalizeDynamicExcel that returns; outside that window they raise
\* and change neither workbook nor any file; after a finalizeDynamicExcel
\* that returns both handles are unset
C29_SessionLifecycle ==
  /\ [](lastOp = "finalize" => (dailyWorkbook.null /\ masterWorkbook.null))
  /\ [][WindowStep /\ OutsideWindowStep]_vars

\* an addPropertyToExcel has raised after the session that wrote the store
\* was closed
C29_Witness ==
  /\ sessions >= 1
  /\ dailyWorkbook.null /\ masterWorkbook.null
  /\ MasterListings \in DOMAIN files
  /\ lastOp = "add"
  /\ hist # <<>> /\ hist[Len(hist)].threw

----------------------------------------------------------------------------
(* The statistics of a rebuild                                            *)

SheetsWithinLimit(sheets) ==
  \A i \in 1..Len(sheets) : Len(sheets[i].rows) <= MAX_ROWS_PER_POSTAL_SHEET

\* C30 (rebuild statistics match the rebuilt store): when the rebuild
\* returns success, totalProperties equals propertiesProcessed and the
\* number of data rows written, sheetsCreated is the number of worksheets,
\* and no worksheet holds more than MAX_ROWS_PER_POSTAL_SHEET records
C30_RebuildStatistics ==
  (rebuild.pc = "done" /\ rebuild.success)
    => /\ rebuild.stats.totalProperties = rebuild.stats.propertiesProcessed
       /\ rebuild.stats.propertiesProcessed = Len(RowSeq(rebuild.sheets))
       /\ rebuild.stats.sheetsCreated = Len(rebuild.sheets)
       /\ SheetsWithinLimit(rebuild.sheets)

====
